---- MODULE Spec2Model ----
(***************************************************************************)
(* Render supervision core of the Blender drag-and-drop renderer           *)
(* (BlenderRenderGui.py, class DragDropWindow) together with the render    *)
(* driver it launches (render_script.py).                                  *)
(*                                                                         *)
(* The window object is a single-threaded Qt event loop: a handler runs to  *)
(* completion, so it is one atomic action, except where it opens a modal   *)
(* dialog and goes on after it: the dialog runs a nested event loop that   *)
(* delivers process signals (not user input), so such a handler is two     *)
(* actions, up to the dialog and from its close (variable dialogs).  Child *)
(* processes (probe, render) run concurrently with the window and reach it *)
(* only through Qt signals: readyReadStandardOutput, errorOccurred and     *)
(* finished.  A render child prints a line and writes a frame file in      *)
(* steps of its own; the window reads the lines of self.process later      *)
(* (variable pipe), and a process that has ended is only known to the      *)
(* window when its finished signal is delivered.                           *)
(***************************************************************************)
EXTENDS Integers, Sequences, FiniteSets, TLC

\* ---------------------------------------------------------------- bounds
NumPaths == 2   \* number of distinct .blend files the user can drop
MaxFrame == 3   \* every scene has frame_start = 1 and frame_end = MaxFrame
MaxJobs  == 2   \* total number of queue entries ever accepted
MaxDur   == 1   \* largest wall-clock duration (in ticks) of one render
MaxFrameDur == 2  \* largest wall-clock duration (in ticks) of one frame
MaxPipe == 4      \* lines of one render child printed and not yet read
MaxInspFrame == 6   \* largest frame number the Output Inspector is applied to
MaxLines == 3       \* frame changes followed in the output of one render child
MaxPathLen == 5     \* longest probed output path, in symbols

Paths  == 1..NumPaths
Frames == 1..MaxFrame
Durs   == 1..MaxDur
FrameDurs == 1..MaxFrameDur
InspFrames == 1..MaxInspFrame

\* ------------------------------------------------------- program constants
NoFile == 0            \* current_blend_file = "" / output_dir = ""
NoProc == 0            \* self.process = None
None   == <<"None">>   \* self.missing_frames is None (or not yet an attribute)
DefaultStartFrame == 1     \* self.start_frame when the probe printed none
DefaultEndFrame   == 250   \* self.end_frame when the probe printed none
BarDefaultMaximum == 100   \* maximum of a QProgressBar before setMaximum

VARIABLES
  file_queue,            \* self.file_queue: pending paths, FIFO
  queue_list,            \* self.queue_list: path -> label of its list item
  currently_rendering,   \* self.currently_rendering
  current_blend_file,    \* self.current_blend_file
  process,               \* self.process: pid of the tracked render child
  probes,                \* probe QProcesses whose finished slot is pending
  start_frame, end_frame, total_frames, current_frame,
  missing_frames,        \* self.missing_frames
  output_dir,            \* self.output_dir (the scene whose directory it is)
  crash_count,           \* self.crash_count
  frame_times,           \* len(self.frame_times)
  frame_time_sum,        \* sum(self.frame_times), in ticks
  stats_label,           \* what self.stats_label shows
  dialogs,               \* open modal dialogs whose caller goes on after them
  pipe,                  \* lines printed by self.process and not yet read
  total_scenes_rendered, total_frames_rendered, total_render_time,
  children,              \* render child processes not yet reaped
  disk,                  \* path -> frames present in its output directory
  njobs,                 \* number of jobs popped from the queue so far
  naccepted,             \* number of queue entries accepted so far
  progress,              \* last value handed to self.progress.setValue
  progress_maximum,      \* self.progress.maximum()
  acceptDrops,           \* self.acceptDrops()
  blender_path,          \* self.config["blender_path"]: "" or "path"
  blender_exists,        \* os.path.exists(blender_path) at this moment
  logs,                  \* scene files with a <basename>.log beside them
  image_format,          \* self.image_format
  ev                     \* the event handled by the last step

vars == <<file_queue, queue_list, currently_rendering, current_blend_file,
          process, probes, start_frame, end_frame, total_frames,
          current_frame, missing_frames, output_dir, crash_count,
          frame_times, total_scenes_rendered, total_frames_rendered,
          total_render_time, children, disk, njobs, naccepted, progress,
          progress_maximum, acceptDrops, blender_path, blender_exists, logs,
          image_format, frame_time_sum, stats_label, dialogs, pipe,
          ev>>

\* a text of the statistics label that carries no estimate
StatsText(text) == [text |-> text, num |-> 0, den |-> 1]

\* The window object and its environment as one value, so that handlers that
\* call other handlers compose as functions.
Self ==
  [file_queue |-> file_queue, queue_list |-> queue_list,
   currently_rendering |-> currently_rendering,
   current_blend_file |-> current_blend_file, process |-> process,
   probes |-> probes, start_frame |-> start_frame, end_frame |-> end_frame,
   total_frames |-> total_frames, current_frame |-> current_frame,
   missing_frames |-> missing_frames, output_dir |-> output_dir,
   crash_count |-> crash_count, frame_times |-> frame_times,
   total_scenes_rendered |-> total_scenes_rendered,
   total_frames_rendered |-> total_frames_rendered,
   total_render_time |-> total_render_time,
   children |-> children, disk |-> disk, njobs |-> njobs,
   naccepted |-> naccepted, progress |-> progress,
   progress_maximum |-> progress_maximum, acceptDrops |-> acceptDrops,
   blender_path |-> blender_path, blender_exists |-> blender_exists,
   logs |-> logs, image_format |-> image_format,
   frame_time_sum |-> frame_time_sum, stats_label |-> stats_label,
   dialogs |-> dialogs, pipe |-> pipe]

Commit(s) ==
  /\ file_queue' = s.file_queue
  /\ queue_list' = s.queue_list
  /\ currently_rendering' = s.currently_rendering
  /\ current_blend_file' = s.current_blend_file
  /\ process' = s.process
  /\ probes' = s.probes
  /\ start_frame' = s.start_frame
  /\ end_frame' = s.end_frame
  /\ total_frames' = s.total_frames
  /\ current_frame' = s.current_frame
  /\ missing_frames' = s.missing_frames
  /\ output_dir' = s.output_dir
  /\ crash_count' = s.crash_count
  /\ frame_times' = s.frame_times
  /\ total_scenes_rendered' = s.total_scenes_rendered
  /\ total_frames_rendered' = s.total_frames_rendered
  /\ total_render_time' = s.total_render_time
  /\ children' = s.children
  /\ disk' = s.disk
  /\ njobs' = s.njobs
  /\ naccepted' = s.naccepted
  /\ progress' = s.progress
  /\ progress_maximum' = s.progress_maximum
  /\ acceptDrops' = s.acceptDrops
  /\ blender_path' = s.blender_path
  /\ blender_exists' = s.blender_exists
  /\ logs' = s.logs
  /\ image_format' = s.image_format
  /\ frame_time_sum' = s.frame_time_sum
  /\ stats_label' = s.stats_label
  /\ dialogs' = s.dialogs
  /\ pipe' = s.pipe

\* the window and its environment are in state s
Holds(s) ==
  /\ file_queue = s.file_queue
  /\ queue_list = s.queue_list
  /\ currently_rendering = s.currently_rendering
  /\ current_blend_file = s.current_blend_file
  /\ process = s.process
  /\ probes = s.probes
  /\ start_frame = s.start_frame
  /\ end_frame = s.end_frame
  /\ total_frames = s.total_frames
  /\ current_frame = s.current_frame
  /\ missing_frames = s.missing_frames
  /\ output_dir = s.output_dir
  /\ crash_count = s.crash_count
  /\ frame_times = s.frame_times
  /\ total_scenes_rendered = s.total_scenes_rendered
  /\ total_frames_rendered = s.total_frames_rendered
  /\ total_render_time = s.total_render_time
  /\ children = s.children
  /\ disk = s.disk
  /\ njobs = s.njobs
  /\ naccepted = s.naccepted
  /\ progress = s.progress
  /\ progress_maximum = s.progress_maximum
  /\ acceptDrops = s.acceptDrops
  /\ blender_path = s.blender_path
  /\ blender_exists = s.blender_exists
  /\ logs = s.logs
  /\ image_format = s.image_format
  /\ frame_time_sum = s.frame_time_sum
  /\ stats_label = s.stats_label
  /\ dialogs = s.dialogs
  /\ pipe = s.pipe

Event(name, path, pid, kind) ==
  [name |-> name, path |-> path, pid |-> pid, kind |-> kind]

\* ------------------------------------------------------------- helpers
InSeq(x, q) == \E i \in 1..Len(q) : q[i] = x

SeqSet(q) == {q[i] : i \in 1..Len(q)}

\* list.remove(x): drops the first occurrence
RemoveFirst(q, x) ==
  IF ~InSeq(x, q) THEN q
  ELSE LET i == CHOOSE k \in 1..Len(q) :
                  q[k] = x /\ \A j \in 1..(k-1) : q[j] # x
       IN SubSeq(q, 1, i-1) \o SubSeq(q, i+1, Len(q))

Max(S) == CHOOSE x \in S : \A y \in S : y <= x

\* ascending list of the elements of a finite set of integers
RECURSIVE SortedIn(_, _, _)
SortedIn(S, lo, hi) ==
  IF S = {} THEN <<>>
  ELSE IF lo = hi THEN <<lo>>
  ELSE LET mid == (lo + hi) \div 2
       IN SortedIn({x \in S : x <= mid}, lo, mid)
            \o SortedIn({x \in S : x > mid}, mid + 1, hi)

SortedSeq(S) ==
  IF S = {} THEN <<>>
  ELSE SortedIn(S, CHOOSE x \in S : \A y \in S : x <= y, Max(S))

\* the loops "for i in range(self.queue_list.count()) ... setText(...)":
\* relabel the list item of a path, when the path has one
SetLabel(s, path, text) ==
  IF path \in Paths /\ s.queue_list[path] # "none"
  THEN [s EXCEPT !.queue_list[path] = text]
  ELSE s


\* ------------------------------------------------- render_script.py (child)
\* frames_to_render as the driver computes it when it starts, from the frames
\* on disk and the --missing_frames argument (None when the argument is absent)
frames_to_render(on_disk, missing_arg) ==
  IF missing_arg # None
  THEN SortedSeq(SeqSet(missing_arg))
  ELSE LET last_rendered == Max(on_disk \cup {0})
           first == IF last_rendered + 1 > 1 THEN last_rendered + 1 ELSE 1
       IN SortedSeq(first..MaxFrame)

\* the child process record at launch; an empty plan prints "All frames
\* already rendered" and leaves through sys.exit(0) without the [DONE] line.
\* absent records the frames of the scene range that had no file at launch;
\* printed: Blender has printed the "Fra:" line of Head(todo) and is rendering
\* it; killed: cancel_render has called kill() on the process.
NewChild(pid, path, on_disk, missing_arg) ==
  LET plan == frames_to_render(on_disk, missing_arg)
  IN [pid |-> pid, path |-> path, todo |-> plan,
      phase |-> IF plan = <<>> THEN "exiting" ELSE "run",
      absent |-> Frames \ on_disk, printed |-> FALSE, killed |-> FALSE]

\* ------------------------------------------------------ Output Inspector
\* the extension of the frame files in the output directories: the render
\* driver always writes "<prefix><5 digits>.png"
RenderExt == "png"

\* str.lower() on the image format tokens of the model
Lower(fmt) ==
  CASE fmt = "PNG" -> "png"
    [] fmt = "JPEG" -> "jpeg"
    [] fmt = "OPEN_EXR" -> "open_exr"
    [] OTHER -> fmt

\* the frame numbers of the files the Inspector keeps: those in self.output_dir
\* whose name ends with "." + self.image_format
rendered_frames_of(s) ==
  IF s.output_dir = NoFile THEN {}
  ELSE IF Lower(s.image_format) = RenderExt THEN s.disk[s.output_dir]
  ELSE {}

\* the Inspector as it was before gaps were handled ("rather than just taking
\* the max frame"): resume after the highest rendered frame
adjust_start_frame_highest(s) ==
  LET rendered_frames == rendered_frames_of(s)
  IN IF rendered_frames = {} THEN s
     ELSE [s EXCEPT !.start_frame = Max(rendered_frames) + 1,
                    !.missing_frames = None,
                    !.total_frames = IF s.end_frame - Max(rendered_frames) > 0
                                     THEN s.end_frame - Max(rendered_frames) ELSE 0]

\* an Inspector that resumes by counting the frame files: it moves the start
\* of the range up by the number of frames found
adjust_start_frame_by_count(s) ==
  LET rendered_frames == rendered_frames_of(s)
  IN IF rendered_frames = {} THEN s
     ELSE [s EXCEPT !.start_frame = @ + Cardinality(rendered_frames),
                    !.total_frames =
                       IF s.end_frame - (s.start_frame + Cardinality(rendered_frames)) + 1 > 0
                       THEN s.end_frame - (s.start_frame + Cardinality(rendered_frames)) + 1
                       ELSE 0]

adjust_start_frame_based_on_existing_output(s) ==
  LET rendered_frames == rendered_frames_of(s)
      missing == SortedSeq({f \in s.start_frame..s.end_frame : f \notin rendered_frames})
  IN IF rendered_frames = {} THEN s
     ELSE LET s1 ==
                IF missing = <<>>
                THEN [s EXCEPT !.start_frame = s.end_frame + 1]
                ELSE [s EXCEPT !.start_frame = missing[1],
                               !.missing_frames =
                                  IF Len(missing) > 1
                                     /\ missing[Len(missing)] - missing[1] + 1 # Len(missing)
                                  THEN missing ELSE None]
          IN [s1 EXCEPT !.total_frames =
                 IF s1.end_frame - s1.start_frame + 1 > 0
                 THEN s1.end_frame - s1.start_frame + 1 ELSE 0]

\* ------------------------------------------------------ Render Supervisor
\* how the launch of a render child goes: the child starts; the render script
\* is missing (start_render returns before it makes a QProcess); or
\* waitForStarted() fails
LaunchOutcomes == {"started", "no_script", "not_started"}

\* start_render up to its return or, when waitForStarted() fails, up to the
\* modal "Process Error" dialog: the dialog is opened with self.process still
\* the QProcess that has no child, and the slots of other processes run while
\* it is open; dialog_closed is the rest of the handler
start_render(s, blend_file, launch) ==
  IF s.process # NoProc THEN s
  ELSE LET s1 == [s EXCEPT !.frame_times = 0, !.frame_time_sum = 0]
           arg == IF s.missing_frames # None /\ Len(s.missing_frames) > 1
                  THEN s.missing_frames ELSE None
       IN IF launch = "no_script" THEN s1
          ELSE IF launch = "not_started"
          THEN [s1 EXCEPT !.process = s.njobs,
                          !.dialogs = Append(@, "Process Error")]
          ELSE [s1 EXCEPT !.process = s.njobs,
                          !.children = @ \cup {NewChild(s.njobs, blend_file,
                                                        s.disk[s.output_dir], arg)},
                          !.progress_maximum = s.total_frames,
                          !.progress = 0,
                          !.current_frame = s.start_frame]

handle_process_error(s, error) ==
  IF error = "Crashed" THEN [s EXCEPT !.crash_count = @ + 1] ELSE s

\* ------------------------------------------------------ Render Queue Manager
probe_scene(s, blend_file) ==
  [s EXCEPT !.njobs = @ + 1,
            !.probes = @ \cup {[path |-> blend_file, job |-> s.njobs + 1,
                                state |-> "running"]}]

\* the session summary; of its texts the model keeps the statistics label
display_overall_statistics(s) ==
  [s EXCEPT !.stats_label = StatsText("Rendering session completed")]

\* process_next_file taking the most recently queued file instead of the head
process_next_file_last(s) ==
  IF s.file_queue = <<>>
  THEN LET s1 == [s EXCEPT !.currently_rendering = FALSE]
       IN IF s.total_scenes_rendered > 0
          THEN display_overall_statistics(s1) ELSE s1
  ELSE LET next_file == s.file_queue[Len(s.file_queue)]
           s1 == [s EXCEPT !.currently_rendering = TRUE,
                           !.file_queue = SubSeq(@, 1, Len(@) - 1)]
       IN probe_scene(SetLabel(s1, next_file, "Rendering"), next_file)

process_next_file(s) ==
  IF s.file_queue = <<>>
  THEN LET s1 == [s EXCEPT !.currently_rendering = FALSE]
       IN IF s.total_scenes_rendered > 0
          THEN display_overall_statistics(s1) ELSE s1
  ELSE LET next_file == Head(s.file_queue)
           s1 == [s EXCEPT !.currently_rendering = TRUE,
                           !.file_queue = Tail(@)]
       IN probe_scene(SetLabel(s1, next_file, "Rendering"), next_file)

\* What the probe printed about one frame field: the "[PROBE] ..." line with
\* an integer, no such line, or a line whose last token is not an integer.
IntField(n) == [kind |-> "int", n |-> n]
AbsentField == [kind |-> "absent", n |-> 0]
GarbledField == [kind |-> "garbled", n |-> 0]

\* the output of a probe that ran to its end on a scene of the model
FullProbe == [start |-> IntField(1), end |-> IntField(MaxFrame), format |-> "PNG"]

\* the image format tokens a probe prints (scene.render.image_settings.file_format)
FormatTokens == {"PNG", "JPEG", "OPEN_EXR"}

\* every probe output: each field printed, absent or garbled
ProbeOutputs ==
  [start : {IntField(1), AbsentField, GarbledField},
   end   : {IntField(MaxFrame), AbsentField, GarbledField},
   format : {"PNG"}]

\* the loop over self.probe_output_lines: defaults first, then one assignment
\* per line, in the order printed; int() raises on a garbled token and the
\* slot ends there (raised = TRUE) with the assignments made so far
read_probe_fields(s, probe) ==
  LET s0 == [s EXCEPT !.start_frame = DefaultStartFrame,
                      !.end_frame = DefaultEndFrame,
                      !.output_dir = NoFile,
                      !.image_format = "png"]
      s1 == IF probe.start.kind = "int"
            THEN [s0 EXCEPT !.start_frame = probe.start.n] ELSE s0
      s2 == [(IF probe.end.kind = "int"
              THEN [s1 EXCEPT !.end_frame = probe.end.n] ELSE s1)
               EXCEPT !.image_format = Lower(probe.format)]
  IN IF probe.start.kind = "garbled" THEN [raised |-> TRUE, s |-> s0]
     ELSE IF probe.end.kind = "garbled" THEN [raised |-> TRUE, s |-> s1]
     ELSE [raised |-> FALSE, s |-> s2]

\* log_error: writes <scene_basename>.log beside the scene file; log_ok =
\* FALSE: the file cannot be written, the exception is swallowed and no log
\* is left
log_error(s, blend_file, log_ok) ==
  IF log_ok THEN [s EXCEPT !.logs = @ \cup {blend_file}] ELSE s

\* what the output directory does to parse_probe_output: it is made and read;
\* os.makedirs raises OSError; or it is there and os.listdir raises in the
\* Inspector (a directory that cannot be read)
DirOutcomes == {"ok", "makedirs_error", "listdir_error"}

\* the state in which the except clause of parse_probe_output starts:
\* os.listdir raises after self.total_frames has been assigned
after_error(s, dir) ==
  IF dir = "listdir_error"
  THEN [s EXCEPT !.total_frames = s.end_frame - s.start_frame + 1]
  ELSE s

\* parse_probe_output that marks a job with a bad output directory and stops
\* there, without going on to the next file
parse_probe_output_no_advance(s, blend_file, probe, dir, launch, log_ok) ==
  LET r == read_probe_fields(s, probe)
      s1 == [r.s EXCEPT !.output_dir = blend_file]
  IN IF r.raised THEN r.s
     ELSE IF dir # "ok"
     THEN [SetLabel(log_error(after_error(s1, dir), blend_file, log_ok),
                    blend_file, "Failed with Error")
             EXCEPT !.currently_rendering = FALSE]
     ELSE LET s2 == adjust_start_frame_based_on_existing_output(
                      [s1 EXCEPT !.total_frames = s1.end_frame - s1.start_frame + 1])
          IN IF s2.start_frame > s2.end_frame
             THEN process_next_file(
                    [SetLabel(s2, blend_file, "Already rendered")
                       EXCEPT !.currently_rendering = FALSE])
             ELSE start_render([s2 EXCEPT !.current_blend_file = blend_file,
                                          !.crash_count = 0],
                               blend_file, launch)

\* parse_probe_output without the test start_frame > end_frame: a render child
\* is launched for every job whose directory could be made
parse_probe_output_always_render(s, blend_file, probe, dir, launch, log_ok) ==
  LET r == read_probe_fields(s, probe)
      s1 == [r.s EXCEPT !.output_dir = blend_file]
  IN IF r.raised THEN r.s
     ELSE IF dir # "ok"
     THEN process_next_file(
            [SetLabel(log_error(after_error(s1, dir), blend_file, log_ok),
                      blend_file, "Failed with Error")
               EXCEPT !.currently_rendering = FALSE])
     ELSE LET s2 == adjust_start_frame_based_on_existing_output(
                      [s1 EXCEPT !.total_frames = s1.end_frame - s1.start_frame + 1])
          IN start_render([s2 EXCEPT !.current_blend_file = blend_file,
                                     !.crash_count = 0],
                          blend_file, launch)

\* dir: see DirOutcomes; launch: see LaunchOutcomes; log_ok: see log_error
parse_probe_output(s, blend_file, probe, dir, launch, log_ok) ==
  LET r == read_probe_fields(s, probe)
      s1 == [r.s EXCEPT !.output_dir = blend_file]
  IN IF r.raised THEN r.s
     ELSE IF dir # "ok"
     THEN process_next_file(
            [SetLabel(log_error(after_error(s1, dir), blend_file, log_ok),
                      blend_file, "Failed with Error")
               EXCEPT !.currently_rendering = FALSE])
     ELSE LET s2 == adjust_start_frame_based_on_existing_output(
                      [s1 EXCEPT !.total_frames = s1.end_frame - s1.start_frame + 1])
          IN IF s2.start_frame > s2.end_frame
             THEN process_next_file(
                    [SetLabel(s2, blend_file, "Already rendered")
                       EXCEPT !.currently_rendering = FALSE])
             ELSE start_render([s2 EXCEPT !.current_blend_file = blend_file,
                                          !.crash_count = 0],
                               blend_file, launch)

\* which branch parse_probe_output takes
ProbeOutcome(s, blend_file, probe, dir, launch) ==
  LET r == read_probe_fields(s, probe)
      s2 == adjust_start_frame_based_on_existing_output(
              [r.s EXCEPT !.output_dir = blend_file])
  IN IF r.raised THEN "parse_error"
     ELSE IF dir = "makedirs_error" THEN "dir_error"
     ELSE IF dir = "listdir_error" THEN "list_error"
     ELSE IF s2.start_frame > s2.end_frame THEN "already_rendered"
     ELSE IF s.process # NoProc THEN "already_rendering"
     ELSE IF launch = "started" THEN "launched"
     ELSE IF launch = "no_script" THEN "launch_error"
     ELSE "start_error"

\* elapsed: time.time() - self.render_start_time
render_finished(s, elapsed) ==
  IF s.process = NoProc THEN s
  ELSE LET frames_rendered == s.end_frame - s.start_frame + 1
           s1 == [s EXCEPT !.progress = s.progress_maximum,
                           !.total_scenes_rendered = @ + 1,
                           !.total_frames_rendered = @ + frames_rendered,
                           !.total_render_time = @ + elapsed]
           s2 == SetLabel(s1, s.current_blend_file, "Completed")
           s3 == process_next_file([s2 EXCEPT !.process = NoProc, !.pipe = <<>>,
                                           !.currently_rendering = FALSE])
       IN IF ~s3.currently_rendering
          THEN display_overall_statistics(s3) ELSE s3

\* update_time_statistics counting the frames left from the position in the
\* range, not from the length of the history
update_time_statistics_by_position(s) ==
  IF s.frame_times = 0
  THEN [s EXCEPT !.stats_label = StatsText("Calculating render statistics...")]
  ELSE LET frames_remaining == s.end_frame - s.current_frame
       IN [s EXCEPT !.stats_label =
                      [text |-> "Render Statistics",
                       num |-> frames_remaining * s.frame_time_sum,
                       den |-> s.frame_times]]

\* The statistics label after a progress line.  The average frame time is
\* frame_time_sum / frame_times, so estimated_remaining_seconds is the
\* fraction num / den of the label.
update_time_statistics(s) ==
  IF s.frame_times = 0
  THEN [s EXCEPT !.stats_label = StatsText("Calculating render statistics...")]
  ELSE LET frames_done == s.frame_times
           frames_remaining == s.total_frames - frames_done
       IN [s EXCEPT !.stats_label =
                      [text |-> "Render Statistics",
                       num |-> frames_remaining * s.frame_time_sum,
                       den |-> s.frame_times]]

\* handle_stdout reporting the frame number itself, not its offset from
\* start_frame
handle_stdout_absolute(s, line, elapsed) ==
  IF line.kind = "Fra"
  THEN LET s1 == IF s.current_frame # line.n
                 THEN [s EXCEPT !.frame_times = IF s.current_frame > 0 THEN @ + 1 ELSE @,
                                !.frame_time_sum = IF s.current_frame > 0
                                                   THEN @ + elapsed ELSE @,
                                !.current_frame = line.n]
                 ELSE s
       IN update_time_statistics([s1 EXCEPT !.progress = s1.current_frame])
  ELSE IF s.process # NoProc THEN render_finished(s, elapsed) ELSE s

\* handle_stdout without the "[DONE]" branch: the marker is read and dropped
handle_stdout_ignore_done(s, line, elapsed) ==
  IF line.kind = "Fra"
  THEN LET s1 == IF s.current_frame # line.n
                 THEN [s EXCEPT !.frame_times = IF s.current_frame > 0 THEN @ + 1 ELSE @,
                                !.frame_time_sum = IF s.current_frame > 0
                                                   THEN @ + elapsed ELSE @,
                                !.current_frame = line.n]
                 ELSE s
       IN update_time_statistics(
            [s1 EXCEPT !.progress = s1.current_frame - s1.start_frame])
  ELSE s

\* the body of handle_stdout's loop for one line read from self.process:
\* "Fra:<n>" or "[DONE]"; elapsed is the time since the clock the branch reads
\* (frame_start_time for a frame line, render_start_time for "[DONE]")
handle_stdout(s, line, elapsed) ==
  IF line.kind = "Fra"
  THEN LET s1 == IF s.current_frame # line.n
                 THEN [s EXCEPT !.frame_times = IF s.current_frame > 0 THEN @ + 1 ELSE @,
                                !.frame_time_sum = IF s.current_frame > 0
                                                   THEN @ + elapsed ELSE @,
                                !.current_frame = line.n]
                 ELSE s
       IN update_time_statistics(
            [s1 EXCEPT !.progress = s1.current_frame - s1.start_frame])
  ELSE IF s.process # NoProc THEN render_finished(s, elapsed) ELSE s

\* handle_stdout's loop over the lines it can read: it stops when a line has
\* cleared self.process; a frame line that comes after a frame change of the
\* same call finds the frame clock just restarted
RECURSIVE read_lines(_, _, _, _)
read_lines(s, lines, frame_elapsed, elapsed) ==
  IF lines = <<>> \/ s.process = NoProc THEN s
  ELSE LET line == Head(lines)
           restarted == line.kind = "Fra" /\ s.current_frame # line.n
           s1 == handle_stdout(s, line, IF line.kind = "Fra" THEN frame_elapsed
                                        ELSE elapsed)
       IN read_lines(s1, Tail(lines), IF restarted THEN 0 ELSE frame_elapsed,
                     elapsed)

\* cancel_render without self.process.kill(): the child is only forgotten
cancel_render_no_kill(s) ==
  IF s.process = NoProc THEN s
  ELSE LET s1 == SetLabel([s EXCEPT !.process = NoProc, !.pipe = <<>>],
                          s.current_blend_file, "Cancelled")
       IN process_next_file([s1 EXCEPT !.currently_rendering = FALSE,
                                       !.current_blend_file = NoFile])

cancel_render(s) ==
  IF s.process = NoProc THEN s
  ELSE LET killed == {IF c.pid = s.process THEN [c EXCEPT !.killed = TRUE] ELSE c
                        : c \in s.children}
           s1 == SetLabel([s EXCEPT !.children = killed, !.process = NoProc,
                                    !.pipe = <<>>],
                          s.current_blend_file, "Cancelled")
       IN process_next_file([s1 EXCEPT !.currently_rendering = FALSE,
                                       !.current_blend_file = NoFile])

add_file_to_queue(s, blend_file) ==
  LET status_text == IF s.currently_rendering THEN "Queued" ELSE "Ready to render"
      appended == [s EXCEPT !.file_queue = Append(@, blend_file),
                            !.queue_list[blend_file] = status_text,
                            !.naccepted = @ + 1]
  IN IF s.queue_list[blend_file] # "none"
     THEN IF s.current_blend_file # blend_file /\ ~InSeq(blend_file, s.file_queue)
          THEN appended ELSE s
     ELSE appended

reset_overall_statistics(s) ==
  [s EXCEPT !.total_scenes_rendered = 0, !.total_frames_rendered = 0,
            !.total_render_time = 0]

RECURSIVE AddAll(_, _)
AddAll(s, files) ==
  IF files = <<>> THEN s ELSE AddAll(add_file_to_queue(s, Head(files)), Tail(files))

dropEvent(s, blend_files) ==
  LET s1 == AddAll(s, blend_files)
      s2 == IF ~s1.currently_rendering /\ s1.total_scenes_rendered > 0
               /\ s1.file_queue = <<>>
            THEN reset_overall_statistics(s1) ELSE s1
  IN IF ~s.acceptDrops THEN s
     ELSE IF ~s2.currently_rendering THEN process_next_file(s2) ELSE s2

remove_file_from_queue(s, blend_file) ==
  IF blend_file = s.current_blend_file /\ s.currently_rendering THEN s
  ELSE [s EXCEPT !.queue_list[blend_file] = "none",
                 !.file_queue = RemoveFirst(@, blend_file)]


\* ---------------------------------------------------------------- actions
\* the window after __init__, with the output directories holding the frames
\* d and the configured Blender path being path ("" when unset) and existing
\* or not
check_blender_installation(s) ==
  [s EXCEPT !.acceptDrops = (s.blender_path # "" /\ s.blender_exists)]

Fresh(d, path, exists) ==
  check_blender_installation(
    [file_queue |-> <<>>, queue_list |-> [p \in Paths |-> "none"],
     currently_rendering |-> FALSE, current_blend_file |-> NoFile,
     process |-> NoProc, probes |-> {}, start_frame |-> 1, end_frame |-> 250,
     total_frames |-> 250, current_frame |-> 0, missing_frames |-> None,
     output_dir |-> NoFile, crash_count |-> 0, frame_times |-> 0,
     total_scenes_rendered |-> 0, total_frames_rendered |-> 0,
     total_render_time |-> 0, children |-> {}, disk |-> d, njobs |-> 0,
     naccepted |-> 0, progress |-> 0, progress_maximum |-> BarDefaultMaximum,
     acceptDrops |-> FALSE, blender_path |-> path, blender_exists |-> exists,
     logs |-> {}, image_format |-> "png", frame_time_sum |-> 0,
     stats_label |-> StatsText("Render statistics will appear here"),
     dialogs |-> <<>>, pipe |-> <<>>])

\* Setup > Choose Blender Path with a file picked in the file dialog, up to
\* the modal "Blender Path Saved" dialog: the path is stored and saved, and
\* check_blender_installation only runs when the dialog is closed; exists: the
\* stored path (on macOS the binary inside the picked .app bundle) exists
choose_blender_path(s, exists) ==
  [s EXCEPT !.blender_path = "path", !.blender_exists = exists,
            !.dialogs = Append(@, "Blender Path Saved")]

\* the user closes the topmost dialog and the handler that opened it goes on:
\* start_render forgets self.process, choose_blender_path checks the
\* installation
dialog_closed(s) ==
  LET top == s.dialogs[Len(s.dialogs)]
      s1 == [s EXCEPT !.dialogs = SubSeq(@, 1, Len(@) - 1)]
  IN IF top = "Process Error" THEN [s1 EXCEPT !.process = NoProc, !.pipe = <<>>]
     ELSE check_blender_installation(s1)

\* a session started with a valid Blender path
Init ==
  /\ \E d \in [Paths -> SUBSET Frames] : Holds(Fresh(d, "path", TRUE))
  /\ ev = Event("init", NoFile, NoProc, "")

\* what one drop can carry: one file, or two different files in either order
DropLists ==
  {<<p>> : p \in Paths}
    \cup {<<pq[1], pq[2]>> : pq \in {x \in Paths \X Paths : x[1] # x[2]}}

\* A modal dialog takes the user's input until it is closed: drops, clicks
\* and the menu wait, while the event loop of the dialog goes on delivering
\* the signals of the processes.
\* the user drops .blend files on the window
DropEvent ==
  \E blend_files \in DropLists :
    /\ dialogs = <<>>
    /\ naccepted + Len(blend_files) <= MaxJobs
    /\ Commit(dropEvent(Self, blend_files))
    /\ ev' = Event("drop", blend_files, NoProc, "")

\* the user clicks the remove button of a list item
RemoveClicked ==
  \E p \in Paths :
    /\ dialogs = <<>>
    /\ queue_list[p] # "none"
    /\ Commit(remove_file_from_queue(Self, p))
    /\ ev' = Event("remove", p, NoProc, "")

\* the user clicks Cancel (the button is enabled while self.process is set)
CancelClicked ==
  /\ dialogs = <<>>
  /\ process # NoProc
  /\ Commit(cancel_render(Self))
  /\ ev' = Event("cancel", current_blend_file, process, "")

\* the probe process could not be started: QProcess reports FailedToStart and
\* never emits finished
ProbeFailedToStart ==
  \E pr \in probes :
    /\ pr.state = "running"
    /\ Commit([Self EXCEPT !.probes = (@ \ {pr}) \cup {[pr EXCEPT !.state = "failed"]}])
    /\ ev' = Event("probe_failed", pr.path, pr.job, "")

\* What the file system and the launch do to one probe continuation.  The log
\* is only written after a directory error and a child is only launched when
\* the directory is there, so the answer that is not asked for is fixed.
ProbeEnvs ==
  {e \in [dir : DirOutcomes, launch : LaunchOutcomes, log_ok : BOOLEAN] :
     /\ e.dir = "ok" => e.log_ok
     /\ e.dir # "ok" => e.launch = "started"}

\* the probe process exits having printed one of outputs: its finished signal
\* runs parse_probe_output
ProbeFinishedWith(outputs, envs) ==
  \E pr \in probes, probe \in outputs, env \in envs :
    /\ pr.state = "running"
    /\ Commit(parse_probe_output([Self EXCEPT !.probes = @ \ {pr}],
                                 pr.path, probe, env.dir, env.launch, env.log_ok))
    /\ ev' = [Event("probe_finished", pr.path, pr.job,
                    ProbeOutcome(Self, pr.path, probe, env.dir, env.launch))
                EXCEPT !.name = IF probe.start.kind = "int" /\ probe.end.kind = "int"
                                THEN @ ELSE "probe_incomplete"]

\* the probe ran to its end and printed every field
ProbeFinished == ProbeFinishedWith({FullProbe}, ProbeEnvs)

\* the user closes the topmost dialog
DialogClosed ==
  /\ dialogs # <<>>
  /\ Commit(dialog_closed(Self))
  /\ ev' = Event("dialog_closed", NoFile, NoProc, dialogs[Len(dialogs)])

FraLineOf(f) == [kind |-> "Fra", n |-> f]
DoneLineOf == [kind |-> "DONE", n |-> 0]

\* the child prints a line: it reaches the window's pipe when the process is
\* the one the window reads from
Printed(s, c, line) ==
  IF s.process = c.pid THEN [s EXCEPT !.pipe = Append(@, line)] ELSE s

CanPrint(c) == process = c.pid => Len(pipe) < MaxPipe

\* the durations the frame clock can show when lines are read: it is only
\* looked at for a frame line
FrameElapsed(lines) ==
  IF \E i \in 1..Len(lines) : lines[i].kind = "Fra" THEN FrameDurs ELSE {1}

TrackedPath == (CHOOSE c \in children : c.pid = process).path

\* the child takes the next frame of its plan: a frame already on disk is
\* skipped; otherwise Blender starts on it and prints its "Fra:<n>" line
ChildFrame ==
  \E c \in children :
    /\ c.phase = "run" /\ ~c.killed /\ c.todo # <<>> /\ ~c.printed
    /\ LET f == Head(c.todo)
       IN IF f \in disk[c.path]
          THEN /\ Commit([Self EXCEPT !.children =
                            (@ \ {c}) \cup {[c EXCEPT !.todo = Tail(@)]}])
               /\ ev' = Event("skip", c.path, c.pid, f)
          ELSE /\ CanPrint(c)
               /\ Commit(Printed([Self EXCEPT !.children =
                                    (@ \ {c}) \cup {[c EXCEPT !.printed = TRUE]}],
                                 c, FraLineOf(f)))
               /\ ev' = Event("print", c.path, c.pid, f)

\* Blender has rendered the frame and writes its file
ChildWrite ==
  \E c \in children :
    /\ c.phase = "run" /\ ~c.killed /\ c.printed
    /\ Commit([Self EXCEPT !.children =
                 (@ \ {c}) \cup {[c EXCEPT !.todo = Tail(@), !.printed = FALSE]},
               !.disk[c.path] = @ \cup {Head(c.todo)}])
    /\ ev' = Event("write", c.path, c.pid, Head(c.todo))

\* the child has gone through its plan and prints "[DONE]"
ChildDone ==
  \E c \in children :
    /\ c.phase = "run" /\ ~c.killed /\ c.todo = <<>>
    /\ CanPrint(c)
    /\ Commit(Printed([Self EXCEPT !.children =
                         (@ \ {c}) \cup {[c EXCEPT !.phase = "done"]}],
                      c, DoneLineOf))
    /\ ev' = Event("print_done", c.path, c.pid, "")

\* readyReadStandardOutput of self.process: handle_stdout reads the lines that
\* have arrived, the first k of those printed
ReadyRead ==
  \E k \in 1..Len(pipe), elapsed \in Durs :
    \E frame_elapsed \in FrameElapsed(SubSeq(pipe, 1, k)) :
    LET lines == SubSeq(pipe, 1, k)
        s0 == [Self EXCEPT !.pipe = SubSeq(@, k + 1, Len(@))]
    IN /\ Commit(read_lines(s0, lines, frame_elapsed, elapsed))
       /\ ev' = IF lines[k].kind = "Fra"
                THEN Event("frame", TrackedPath, process, lines[k].n)
                ELSE Event("done", TrackedPath, process, "")

\* how a child in a given phase can leave: by itself (sys.exit(0) with an
\* empty plan, sys.exit(1) from a failed frame, Blender's own exit status after
\* the script) or ended by a signal, that of cancel_render's kill() included;
\* a kill() that comes after the process has ended changes nothing
ExitKinds(c) ==
  CASE c.phase = "run"     -> IF c.todo # <<>> THEN {"crash", "nonzero"} ELSE {"crash"}
    [] c.phase = "done"    -> {"zero", "nonzero", "crash"}
    [] c.phase = "exiting" -> {"zero", "crash"}

\* a child process ends: Qt first hands over the output still unread
\* (readyReadStandardOutput with the process still Running), then emits
\* errorOccurred(Crashed) for an abnormal end, then finished; the slots act on
\* whatever self.process is at that moment
ChildExit ==
  \E c \in children, elapsed \in Durs :
    \E kind \in ExitKinds(c),
       frame_elapsed \in FrameElapsed(IF process = c.pid THEN pipe ELSE <<>>) :
      /\ LET s0 == [Self EXCEPT !.children = @ \ {c}]
             s1 == IF process = c.pid
                   THEN read_lines([s0 EXCEPT !.pipe = <<>>], pipe,
                                   frame_elapsed, elapsed)
                   ELSE s0
             s2 == IF kind = "crash" THEN handle_process_error(s1, "Crashed") ELSE s1
         IN Commit(render_finished(s2, elapsed))
      /\ ev' = Event("exit", c.path, c.pid, kind)

Next ==
  \/ DropEvent
  \/ RemoveClicked
  \/ CancelClicked
  \/ ProbeFailedToStart
  \/ ProbeFinished
  \/ DialogClosed
  \/ ChildFrame
  \/ ChildWrite
  \/ ChildDone
  \/ ReadyRead
  \/ ChildExit

Spec == Init /\ [][Next]_vars


\* The event loop delivers every signal of a process that has one to deliver;
\* the user's actions carry no fairness.
FairSpec ==
  /\ Spec
  /\ WF_vars(ProbeFinished)
  /\ WF_vars(ChildFrame)
  /\ WF_vars(ChildWrite)
  /\ WF_vars(ChildDone)
  /\ WF_vars(ReadyRead)
  /\ WF_vars(ChildExit)

\* ------------------------------------------- any output of a render child
\* The first job of a session has been probed and its render child launched,
\* for every set of frames on disk and a scene that starts at frame 1 or at
\* frame 0; the child then prints any sequence of "Fra:<n>" lines, n from 0
\* to one above the range, and "[DONE]".
FraValues == 0..(MaxFrame + 1)

ProgressProbes == {[FullProbe EXCEPT !.start = IntField(st)] : st \in {0, 1}}

ProgressInit ==
  /\ \E d \in [Paths -> SUBSET Frames], probe \in ProgressProbes :
       LET s1 == dropEvent(Fresh(d, "path", TRUE), <<1>>)
           s2 == parse_probe_output([s1 EXCEPT !.probes = {}], 1, probe,
                                    "ok", "started", TRUE)
       IN s2.process # NoProc /\ Holds(s2)
  /\ ev = Event("init", NoFile, NoProc, "")

FraLine ==
  \E n \in FraValues, elapsed \in FrameDurs :
    /\ process # NoProc
    /\ frame_times < MaxLines
    /\ Commit(handle_stdout(Self, [kind |-> "Fra", n |-> n], elapsed))
    /\ ev' = Event("fra", current_blend_file, process, n)

DoneLine ==
  \E elapsed \in Durs :
    /\ process # NoProc
    /\ Commit(handle_stdout(Self, [kind |-> "DONE", n |-> 0], elapsed))
    /\ ev' = Event("done", current_blend_file, process, "")

ProgressNext ==
  \/ FraLine
  \/ DoneLine

ProgressSpec == ProgressInit /\ [][ProgressNext]_vars

\* ------------------------------------------ scenes with any image format
\* Sessions in which the probed scenes have any image format; render children
\* run through their plans and exit.
FormatProbes == {[FullProbe EXCEPT !.format = f] : f \in FormatTokens}

ProbeFinishedFormat == ProbeFinishedWith(FormatProbes, ProbeEnvs)

FormatNext ==
  \/ DropEvent
  \/ ProbeFinishedFormat
  \/ DialogClosed
  \/ ChildFrame
  \/ ChildWrite
  \/ ChildDone
  \/ ReadyRead
  \/ ChildExit

FormatSpec == Init /\ [][FormatNext]_vars

\* ------------------------------------------------ sessions with any config
\* The window is started with the Blender path unset, set to a file that does
\* not exist, or valid; the user can choose a path, and the configured file
\* can disappear while the window is open.  Probes are started, not followed.
ConfigInit ==
  /\ \E d \in [Paths -> SUBSET Frames], path \in {"", "path"}, exists \in BOOLEAN :
       /\ path = "" => ~exists
       /\ Holds(Fresh(d, path, exists))
  /\ ev = Event("init", NoFile, NoProc, "")

ChooseBlenderPath ==
  \E exists \in BOOLEAN :
    /\ dialogs = <<>>
    /\ Commit(choose_blender_path(Self, exists))
    /\ ev' = Event("choose_blender_path", NoFile, NoProc, "")

\* the configured Blender executable is deleted, moved or unmounted
BlenderRemoved ==
  /\ blender_path # "" /\ blender_exists
  /\ Commit([Self EXCEPT !.blender_exists = FALSE])
  /\ ev' = Event("blender_removed", NoFile, NoProc, "")

ConfigNext ==
  \/ DropEvent
  \/ ChooseBlenderPath
  \/ DialogClosed
  \/ BlenderRemoved
  \/ ProbeFailedToStart
  \/ ProbeFinished
  \/ ChildFrame
  \/ ChildWrite
  \/ ChildDone
  \/ ReadyRead
  \/ ChildExit

ConfigSpec == ConfigInit /\ [][ConfigNext]_vars

\* --------------------------------------------- probes with any output at all
\* Sessions in which a probe may end having printed any combination of its
\* frame fields (Blender crashed or failed to load the scene before the probe
\* script printed them).  Render children are launched but not followed.
\* the probe outputs are crossed with the launch outcomes; the directory and
\* log faults are covered by Spec
LaunchEnvs == {e \in ProbeEnvs : e.dir = "ok"}

ProbeFinishedAny == ProbeFinishedWith(ProbeOutputs, LaunchEnvs)

ProbeNext ==
  \/ DropEvent
  \/ ProbeFinishedAny
  \/ DialogClosed

ProbeSpec == Init /\ [][ProbeNext]_vars

\* ------------------------------------------------ output-path resolution
\* A path string is a sequence of symbols: the separator "/" or one whole
\* path component; two components are never adjacent.
PathSym == {"/", ".", "..", "a", "OUTPUT_DIR"}

PathStrings ==
  {q \in UNION {[1..n -> PathSym] : n \in 0..MaxPathLen} :
     \A i \in 1..(Len(q) - 1) : q[i] = "/" \/ q[i+1] = "/"}

\* the scene files the probe is run for, and the working directory of the GUI
SceneFiles == {<<"/", "s", "/", "scene.blend">>, <<"/", "scene.blend">>}
Cwd == <<"/", "cwd">>

isabs(q) == Len(q) >= 1 /\ q[1] = "/"
startswith2(q) == Len(q) >= 2 /\ q[1] = "/" /\ q[2] = "/"
DropFirst(q, n) == SubSeq(q, n + 1, Len(q))

\* posixpath.join(a, b)
join(a, b) ==
  IF isabs(b) THEN b
  ELSE IF a = <<>> \/ a[Len(a)] = "/" THEN a \o b
  ELSE a \o <<"/">> \o b

\* the loop of posixpath.normpath over the components
RECURSIVE Collapse(_, _, _)
Collapse(comps, acc, initial_slashes) ==
  IF comps = <<>> THEN acc
  ELSE LET c == Head(comps)
       IN IF c = "." THEN Collapse(Tail(comps), acc, initial_slashes)
          ELSE IF \/ c # ".."
                  \/ (initial_slashes = 0 /\ acc = <<>>)
                  \/ (acc # <<>> /\ acc[Len(acc)] = "..")
          THEN Collapse(Tail(comps), Append(acc, c), initial_slashes)
          ELSE IF acc # <<>>
          THEN Collapse(Tail(comps), SubSeq(acc, 1, Len(acc) - 1), initial_slashes)
          ELSE Collapse(Tail(comps), acc, initial_slashes)

\* "/".join(comps)
SlashJoin(comps) ==
  IF comps = <<>> THEN <<>>
  ELSE [i \in 1..(2 * Len(comps) - 1) |->
          IF i % 2 = 1 THEN comps[(i + 1) \div 2] ELSE "/"]

\* posixpath.normpath
normpath(q) ==
  IF q = <<>> THEN <<".">>
  ELSE LET initial_slashes ==
             IF ~isabs(q) THEN 0
             ELSE IF startswith2(q) /\ ~(Len(q) >= 3 /\ q[3] = "/") THEN 2
             ELSE 1
           comps == Collapse(SelectSeq(q, LAMBDA x : x # "/"), <<>>, initial_slashes)
           r == [i \in 1..initial_slashes |-> "/"] \o SlashJoin(comps)
       IN IF r = <<>> THEN <<".">> ELSE r

\* posixpath.abspath
abspath(q) == normpath(IF isabs(q) THEN q ELSE join(Cwd, q))

\* posixpath.dirname
dirname(q) ==
  LET slashes == {i \in 1..Len(q) : q[i] = "/"}
      head == IF slashes = {} THEN <<>> ELSE SubSeq(q, 1, Max(slashes))
      cut == {i \in 1..Len(head) : head[i] # "/"}
  IN IF cut = {} THEN head ELSE SubSeq(head, 1, Max(cut))

\* f"{Path(blend_file).stem}_output" for the scene files of the model
stem_output(q) ==
  IF q[Len(q)] = "scene.blend" THEN "scene_output" ELSE "_output"

\* the line read_probe_output stores for print("[PROBE] OUTPUT_DIR", value):
\* the two arguments joined by a space, then strip()
probe_output_dir_line(value) ==
  IF value = <<>> THEN <<"[PROBE]", " ", "OUTPUT_DIR">>
  ELSE <<"[PROBE]", " ", "OUTPUT_DIR", " ">> \o value

\* line.split(" ", 2)[-1]
split_last(line) ==
  LET sp == {i \in 1..Len(line) : line[i] = " "}
      first == CHOOSE i \in sp : \A j \in sp : i <= j
      rest == sp \ {first}
      second == CHOOSE i \in rest : \A j \in rest : i <= j
  IN IF sp = {} THEN line
     ELSE IF rest = {} THEN DropFirst(line, first)
     ELSE DropFirst(line, second)

endswith_OUTPUT_DIR(q) == q # <<>> /\ q[Len(q)] = "OUTPUT_DIR"

\* parse_probe_output up to os.makedirs: self.output_dir for a scene file and
\* the value the probe printed for the output path
resolve_output_dir(blend_file, value) ==
  LET scene_dir == dirname(blend_file)
      fallback_output == join(scene_dir, <<stem_output(blend_file)>>)
      output == split_last(probe_output_dir_line(value))
      od == IF output # <<>> /\ output # <<"/", "/">> /\ ~endswith_OUTPUT_DIR(output)
            THEN output ELSE <<>>
  IN IF od = <<>> \/ od = <<"/", "/">> \/ endswith_OUTPUT_DIR(od)
     THEN fallback_output
     ELSE IF startswith2(od)
     THEN abspath(normpath(join(scene_dir, DropFirst(od, 2))))
     ELSE IF ~isabs(od)
     THEN abspath(normpath(join(scene_dir, od)))
     ELSE abspath(od)

\* The probe of a scene file ends having printed any path string as its
\* output path; output_dir holds the resolved directory as a path string.
ResolveInit ==
  /\ Holds([Fresh([p \in Paths |-> {}], "path", TRUE) EXCEPT !.output_dir = <<>>])
  /\ ev = Event("init", <<>>, NoProc, <<>>)

Resolve ==
  \E blend_file \in SceneFiles, value \in PathStrings :
    /\ Commit([Self EXCEPT !.output_dir = resolve_output_dir(blend_file, value)])
    /\ ev' = Event("resolve", blend_file, NoProc, value)

ResolveNext == Resolve

ResolveSpec == ResolveInit /\ [][ResolveNext]_vars

\* ------------------------------------------- the Output Inspector on its own
\* parse_probe_output has read the range [start_frame, end_frame] of the job
\* being probed and made its output directory; the directory holds any set of
\* frames, and self.missing_frames is None or the list an earlier job left.
InspectorInit ==
  /\ file_queue = <<>>
  /\ queue_list = [p \in Paths |-> IF p = 1 THEN "Rendering" ELSE "none"]
  /\ currently_rendering = TRUE
  /\ current_blend_file = NoFile
  /\ process = NoProc
  /\ probes = {}
  /\ \E st \in InspFrames, en \in InspFrames :
       /\ st <= en
       /\ start_frame = st /\ end_frame = en /\ total_frames = en - st + 1
  /\ current_frame = 0
  /\ missing_frames \in {None, <<1, 3>>}
  /\ output_dir = 1
  /\ crash_count = 0
  /\ frame_times = 0
  /\ total_scenes_rendered = 0
  /\ total_frames_rendered = 0
  /\ total_render_time = 0
  /\ children = {}
  /\ \E d \in SUBSET InspFrames : disk = [p \in Paths |-> IF p = 1 THEN d ELSE {}]
  /\ njobs = 1
  /\ naccepted = 1
  /\ progress = 0
  /\ progress_maximum = BarDefaultMaximum
  /\ acceptDrops = TRUE
  /\ blender_path = "path"
  /\ blender_exists = TRUE
  /\ logs = {}
  /\ image_format = "png"
  /\ frame_time_sum = 0
  /\ stats_label = StatsText("Render statistics will appear here")
  /\ dialogs = <<>>
  /\ pipe = <<>>
  /\ ev = Event("init", NoFile, NoProc, "")

\* parse_probe_output calls the Inspector
Inspect ==
  /\ Commit(adjust_start_frame_based_on_existing_output(Self))
  /\ ev' = Event("inspect", output_dir, NoProc, "")

\* the Inspector is applied again to the state it produced, the directory
\* being as it was
InspectAgain ==
  /\ ev.name \in {"inspect", "inspect_again"}
  /\ Commit(adjust_start_frame_based_on_existing_output(Self))
  /\ ev' = Event("inspect_again", output_dir, NoProc, "")

InspectorNext ==
  \/ Inspect
  \/ InspectAgain

InspectorSpec == InspectorInit /\ [][InspectorNext]_vars

\* ------------------------------------------------------ vocabulary of claims
\* the outcomes of a probe continuation that fail the job on its output
\* directory (it cannot be made, or cannot be read) and on the launch of its
\* render child (no render script, or the process does not start)
DirErrors == {"dir_error", "list_error"}
LaunchErrors == {"launch_error", "start_error"}

\* session statistics
Stats == <<total_scenes_rendered, total_frames_rendered, total_render_time>>

\* paths of the Active job: being probed, or rendering under self.process
ActivePaths ==
  {pr.path : pr \in probes}
    \cup (IF process # NoProc THEN {current_blend_file} ELSE {})

\* render children that are alive: started, not exited and not killed
AliveChildren == {c \in children : ~c.killed}

Pids(cs) == {c.pid : c \in cs}
Jobs(ps) == {pr.job : pr \in ps}

\* frames of the probed range not on disk, for the output directory of a path
MissingOnDisk(d, path) == {f \in Frames : f \notin d[path]}

\* this step is the end of the tracked child (pid) without [DONE], abnormal or
\* with a non-zero status, while current_frame < end_frame
CrashStep ==
  /\ ev'.name = "exit" /\ ev'.kind \in {"crash", "nonzero"}
  /\ process = ev'.pid
  /\ \E c \in children : c.pid = ev'.pid /\ c.phase # "done"
  /\ current_frame < end_frame

\* this step started the probe of a job popped from the queue
NewProbes == {pr \in probes' : pr.job \notin Jobs(probes)}
\* this step launched a render child
NewChildren == {c \in children' : c.pid \notin Pids(children)}

\* the queue manager has advanced from the pending queue q: its head is being
\* probed and the rest is pending, or nothing was pending and the manager is idle
AdvancedFrom(q) ==
  IF q = <<>>
  THEN ~currently_rendering' /\ NewProbes = {} /\ file_queue' = <<>>
  ELSE /\ currently_rendering'
       /\ file_queue' = Tail(q)
       /\ \E pr \in NewProbes : NewProbes = {pr} /\ pr.path = Head(q)


\* -------------------------------------------------------------------- C1
\* C1 (crash-resume): whenever the tracked render child ends abnormally or
\* with a non-zero status, before [DONE] and while current_frame < end_frame,
\* the same step launches a new render child for the same scene file, with
\* start_frame the first frame of the range that is not on disk; the job is
\* not marked Completed and the queue does not advance.
C1_CrashResume ==
  [][CrashStep =>
       /\ \E c \in NewChildren :
            /\ process' = c.pid
            /\ c.path = current_blend_file
       /\ current_blend_file' = current_blend_file
       /\ MissingOnDisk(disk', current_blend_file) # {}
            => start_frame' = CHOOSE f \in MissingOnDisk(disk', current_blend_file) :
                                \A g \in MissingOnDisk(disk', current_blend_file) : f <= g
       /\ queue_list'[current_blend_file] # "Completed"
       /\ file_queue' = file_queue
       /\ NewProbes = {}]_vars

\* -------------------------------------------------------------------- C2
\* C2 (single-worker exclusivity): in every reachable state at most one job is
\* Active (being probed or rendering) and at most one render child is alive.
C2_SingleWorker ==
  /\ Cardinality(Jobs(probes) \cup (IF process # NoProc THEN {process} ELSE {})) <= 1
  /\ Cardinality(AliveChildren) <= 1

\* -------------------------------------------------------------------- C3
\* C3 (statistics only on Finished): a step in which a job is cancelled, or
\* fails (output directory error, launch error), or in which a render child
\* that never printed [DONE] ends abnormally or with a non-zero status, leaves
\* total_scenes_rendered, total_frames_rendered and total_render_time
\* unchanged.
C3_StatsOnlyOnFinished ==
  [][(\/ ev'.name = "cancel"
      \/ ev'.name = "probe_finished" /\ ev'.kind \in DirErrors \cup LaunchErrors
      \/ /\ ev'.name = "exit" /\ ev'.kind \in {"crash", "nonzero"}
         /\ \E c \in children : c.pid = ev'.pid /\ c.phase # "done")
       => Stats' = Stats]_vars


\* -------------------------------------------------------------------- C4
\* C4 (cancellation): a cancel request while a render child is tracked kills
\* that child and forgets it, marks the job's list item Cancelled (when the
\* path has an item and is not itself the next job popped by this step),
\* launches no render child, and advances the queue: the head of the pending
\* queue is probed next, or the manager goes idle.  No step ever relaunches
\* that job: a render child is only ever launched for the job whose probe has
\* just finished, and a probe only ever starts for a fresh job number.
C4_Cancellation ==
  [][/\ ev'.name = "cancel" =>
          /\ \E c \in children :
               /\ c.pid = process /\ ~c.killed
               /\ children' = (children \ {c}) \cup {[c EXCEPT !.killed = TRUE]}
          /\ process' = NoProc
          /\ (/\ queue_list[current_blend_file] # "none"
              /\ (file_queue = <<>> \/ Head(file_queue) # current_blend_file))
               => queue_list'[current_blend_file] = "Cancelled"
          /\ AdvancedFrom(file_queue)
     /\ \A c \in NewChildren :
          /\ ev'.name = "probe_finished"
          /\ \E pr \in probes : pr.job = c.pid /\ pr.path = c.path /\ pr \notin probes'
     /\ \A pr \in NewProbes :
          /\ pr.job = njobs + 1
          /\ \A c \in children : c.pid < pr.job]_vars

\* a job was cancelled while another was pending: its child is killed and the
\* next job is being probed
C4_Witness ==
  /\ ev.name = "cancel"
  /\ \E c \in children : c.pid = ev.pid /\ c.killed
  /\ \E pr \in probes : pr.job = ev.pid + 1
  /\ queue_list[ev.path] = "Cancelled"


\* -------------------------------------------------------------------- C5
\* C5 (LaunchError): when the render child of a probed job cannot be started,
\* the same step marks the job's list item Failed, launches nothing, and
\* advances the queue: the head of the pending queue is probed next, or the
\* manager goes idle so that later drops are processed.
C5_LaunchError ==
  [][(ev'.name = "probe_finished" /\ ev'.kind \in LaunchErrors) =>
       /\ queue_list[ev'.path] # "none" => queue_list'[ev'.path] = "Failed with Error"
       /\ NewChildren = {}
       /\ process' = NoProc
       /\ AdvancedFrom(file_queue)]_vars

\* -------------------------------------------------------------------- C6
\* C6 (ProbeError on launch failure): whenever the probe process of a job
\* could not be started, the job eventually leaves the Probing state (its
\* continuation runs, the job fails and the queue advances).
C6_ProbeError ==
  \A j \in 1..MaxJobs :
    (\E pr \in probes : pr.job = j /\ pr.state = "failed")
      ~> (\A pr \in probes : pr.job # j)

\* -------------------------------------------------------------------- C7
\* C7 (no duplicate queue entries): after every step the pending queue holds
\* each path at most once and does not hold the path of the Active job, and a
\* drop of a path that is pending or Active leaves the occurrences of that path
\* in the pending queue unchanged.
C7_NoDuplicates ==
  [][/\ \A i, j \in 1..Len(file_queue') :
          file_queue'[i] = file_queue'[j] => i = j
     /\ \A p \in ActivePaths' : ~InSeq(p, file_queue')
     /\ ev'.name = "drop" =>
          \A p \in SeqSet(ev'.path) :
            (InSeq(p, file_queue) \/ p \in ActivePaths) =>
               /\ InSeq(p, file_queue') = InSeq(p, file_queue)
               /\ file_queue' = file_queue
                    \o SubSeq(file_queue', Len(file_queue) + 1, Len(file_queue'))]_vars

\* -------------------------------------------------------------------- C8
\* C8 (remove refused for the Active job): a click on the remove button of the
\* path that is being probed or rendered changes neither the list, the
\* pending queue, the Active job nor its processes.
C8_RemoveRefused ==
  [][(ev'.name = "remove" /\ ev'.path \in ActivePaths) =>
       UNCHANGED <<queue_list, file_queue, current_blend_file,
                   currently_rendering, process, probes, children>>]_vars


\* -------------------------------------------------------------------- C9
\* x is y with some elements left out, order kept
RECURSIVE IsSubseq(_, _)
IsSubseq(x, y) ==
  IF x = <<>> THEN TRUE
  ELSE IF y = <<>> THEN FALSE
  ELSE IF Head(x) = Head(y) THEN IsSubseq(Tail(x), Tail(y))
  ELSE IsSubseq(x, Tail(y))

\* the files this step accepted into the pending queue, given the pending
\* queue as it would be had nothing been popped
AcceptedInto(q) ==
  /\ Len(q) >= Len(file_queue)
  /\ SubSeq(q, 1, Len(file_queue)) = file_queue
  /\ IF ev'.name = "drop"
     THEN /\ IsSubseq(SubSeq(q, Len(file_queue) + 1, Len(q)), ev'.path)
          /\ Len(q) - Len(file_queue) = naccepted' - naccepted
     ELSE q = file_queue

\* the Active job ends in this step: a slot forgets its tracked child (finished
\* or cancelled), or its probe ends in a directory error or finds every frame
\* already rendered.  Closing the "Process Error" dialog also clears
\* self.process, but that is the tail of a launch error, which gives the job
\* no terminal state (C5).
TerminalStep ==
  \/ process # NoProc /\ process' # process /\ ev'.name # "dialog_closed"
  \/ ev'.name = "probe_finished" /\ ev'.kind \in DirErrors \cup {"already_rendered"}

\* C9 (FIFO advance): a job becomes Active only as the head of the pending
\* queue, which otherwise only grows at its tail by the accepted files of a
\* drop or loses the file of a remove click; two files accepted by one drop
\* while idle make the first Active (probing, labelled Rendering) and leave
\* the second pending; and every step that ends the Active job (Finished,
\* Cancelled, Failed, Already rendered) makes the head of the pending queue
\* Active in that same step, or leaves the manager idle when nothing is pending.
C9_FifoAdvance ==
  [][/\ IF NewProbes # {}
        THEN \E pr \in NewProbes :
               /\ NewProbes = {pr}
               /\ AcceptedInto(<<pr.path>> \o file_queue')
        ELSE \/ AcceptedInto(file_queue')
             \/ ev'.name = "remove" /\ file_queue' = RemoveFirst(file_queue, ev'.path)
     /\ (/\ ev'.name = "drop" /\ ~currently_rendering
         /\ Len(ev'.path) = 2 /\ naccepted' = naccepted + 2) =>
            /\ \E pr \in NewProbes : pr.path = ev'.path[1]
            /\ file_queue' = <<ev'.path[2]>>
            /\ queue_list'[ev'.path[1]] = "Rendering"
            /\ queue_list'[ev'.path[2]] = "Ready to render"
     /\ TerminalStep => AdvancedFrom(file_queue)]_vars

\* the tracked child of one job printed [DONE] while another file was pending:
\* the job is Completed and the pending file is now being probed
C9_Witness ==
  /\ ev.name = "done"
  /\ queue_list[ev.path] = "Completed"
  /\ \E pr \in probes :
       /\ pr.job = ev.pid + 1 /\ pr.path # ev.path
       /\ queue_list[pr.path] = "Rendering"

\* -------------------------------------------------------------------- C10
\* C10 (crash count): crash_count is 0 in the step that launches a job's render
\* child; every end of the tracked child that is abnormal or non-zero, before
\* [DONE] and with current_frame < end_frame, increases it by exactly 1; and no
\* event of a child other than the tracked one changes it.
C10_CrashCount ==
  [][/\ NewChildren # {} => crash_count' = 0
     /\ CrashStep => crash_count' = crash_count + 1
     /\ (/\ ev'.name \in {"exit", "print", "skip", "write", "print_done"}
         /\ process # NoProc /\ ev'.pid # process)
          => crash_count' = crash_count]_vars

\* -------------------------------------------------------------------- C11
\* this step reads a [DONE] line from the tracked child: handle_stdout run for
\* readyReadStandardOutput, or for the output left unread when the child ends
DoneRead ==
  \/ ev'.name = "done" /\ process = ev'.pid
  \/ /\ ev'.name = "exit" /\ process = ev'.pid
     /\ \E i \in 1..Len(pipe) : pipe[i].kind = "DONE"

\* C11 (completion marker): the step in which a [DONE] line is read from the
\* tracked render child ends the job as Completed: the child is forgotten,
\* the job is counted once in the session statistics, its list item (when the
\* path has one and is not itself the next job popped by this step) reads
\* Completed, and the queue advances.  The later end of that child, with a
\* zero status, a non-zero status or abnormally, leaves an item that reads
\* Completed as it is, unless that step starts a new job for the same path.
C11_DoneCompletes ==
  [][/\ DoneRead =>
          /\ process' = NoProc
          /\ total_scenes_rendered' = total_scenes_rendered + 1
          /\ (/\ queue_list[ev'.path] # "none"
              /\ current_blend_file = ev'.path
              /\ (file_queue = <<>> \/ Head(file_queue) # ev'.path))
               => queue_list'[ev'.path] = "Completed"
          /\ AdvancedFrom(file_queue)
     /\ (/\ ev'.name = "exit"
         /\ \E c \in children : c.pid = ev'.pid /\ c.phase = "done"
         /\ queue_list[ev'.path] = "Completed"
         /\ \A pr \in NewProbes : pr.path # ev'.path)
          => queue_list'[ev'.path] = "Completed"]_vars

\* the tracked child has printed [DONE] and has not exited: its job reads
\* Completed, is counted, and nothing is tracked any more
C11_Witness ==
  /\ ev.name = "done"
  /\ \E c \in children : c.pid = ev.pid /\ c.phase = "done"
  /\ queue_list[ev.path] = "Completed"
  /\ process = NoProc
  /\ total_scenes_rendered = 1

\* -------------------------------------------------------------------- C12
Min(S) == CHOOSE x \in S : \A y \in S : x <= y

\* the frames of the range [start_frame, end_frame] absent from the inspected
\* directory
InspMissing == {f \in start_frame..end_frame : f \notin disk[output_dir]}

\* S is one run of consecutive integers
OneRun(S) == \A f \in Min(S)..Max(S) : f \in S

\* C12 (Output Inspector, gaps): whenever the Inspector is applied to a range
\* and a directory such that the missing frames of the range are non-empty and
\* not one contiguous run, it leaves start_frame = the smallest missing frame
\* and missing_frames = the ascending list of exactly the missing frames.
C12_Gaps ==
  [][(ev'.name = "inspect" /\ InspMissing # {} /\ ~OneRun(InspMissing)) =>
       /\ start_frame' = Min(InspMissing)
       /\ missing_frames' # None
       /\ Len(missing_frames') = Cardinality(InspMissing)
       /\ \A i \in 1..Len(missing_frames') :
            /\ missing_frames'[i] \in InspMissing
            /\ \A j \in 1..(i-1) : missing_frames'[j] < missing_frames'[i]]_vars

\* rendered {1,2,4,5} in a range ending at 6: the Inspector has left
\* start_frame = 3 and missing_frames = [3, 6]
C12_Witness ==
  /\ ev.name = "inspect"
  /\ disk[output_dir] = {1, 2, 4, 5}
  /\ end_frame = 6
  /\ start_frame = 3
  /\ missing_frames = <<3, 6>>

\* -------------------------------------------------------------------- C13
\* C13 (Output Inspector, already complete): whenever a probe finishes for a
\* job whose output directory holds every frame of the probed range, the
\* Inspector leaves start_frame = end_frame + 1 and missing_frames = None,
\* whatever earlier jobs of the session left behind.
C13_AlreadyComplete ==
  [][(/\ ev'.name = "probe_finished" /\ ev'.kind \notin DirErrors
      /\ \A f \in Frames : f \in disk[ev'.path])
       => /\ start_frame' = end_frame' + 1
          /\ missing_frames' = None]_vars

\* -------------------------------------------------------------------- C14
\* C14 (Output Inspector, contiguous gap): whenever a probe finishes for a job
\* whose missing frames form one contiguous run (a single frame, a run, or the
\* whole range), the Inspector leaves start_frame = the first missing frame
\* and missing_frames = None.
C14_ContiguousGap ==
  [][(/\ ev'.name = "probe_finished" /\ ev'.kind \notin DirErrors
      /\ MissingOnDisk(disk, ev'.path) # {}
      /\ OneRun(MissingOnDisk(disk, ev'.path)))
       => /\ start_frame' = Min(MissingOnDisk(disk, ev'.path))
          /\ missing_frames' = None]_vars

\* -------------------------------------------------------------------- C15
\* the frames a render child launched in this step is asked for: the explicit
\* --missing_frames list when start_render passes one, else the scene range
WantedFrames ==
  IF missing_frames' # None /\ Len(missing_frames') > 1
  THEN SeqSet(missing_frames') ELSE Frames

\* C15 (render driver resume): a render driver launched with --resume true
\* plans, in ascending order, every frame of the scene range (or of the
\* explicit list) whose file is not on disk, also a frame below the highest
\* frame on disk; and when it comes to a frame of its plan it skips the frame
\* exactly when the file exists.
C15_DriverResume ==
  [][/\ \A c \in NewChildren :
          /\ \A f \in WantedFrames : f \notin disk'[c.path] => InSeq(f, c.todo)
          /\ \A i, j \in 1..Len(c.todo) : i < j => c.todo[i] < c.todo[j]
     /\ ev'.name \in {"print", "skip"} =>
          (ev'.name = "skip" <=> ev'.kind \in disk[ev'.path])
     /\ ev'.name \in {"write", "skip"} => ev'.kind \in disk'[ev'.path]]_vars

\* -------------------------------------------------------------------- C16
\* C16 (OutputDirectoryError): when the output directory of the probed job
\* cannot be created or read, the same step marks the job's list item Failed
\* (when the path has an item and is not itself the next job popped), launches
\* no render child, leaves the session statistics unchanged and advances the
\* queue to the next pending job, or to idle.
C16_OutputDirectoryError ==
  [][(ev'.name = "probe_finished" /\ ev'.kind \in DirErrors) =>
       /\ (/\ queue_list[ev'.path] # "none"
           /\ (file_queue = <<>> \/ Head(file_queue) # ev'.path))
            => queue_list'[ev'.path] = "Failed with Error"
       /\ NewChildren = {}
       /\ process' = NoProc
       /\ Stats' = Stats
       /\ AdvancedFrom(file_queue)]_vars

\* the output directory of one job could not be listed while another file was
\* pending: the job reads Failed and the pending file is now being probed
C16_Witness ==
  /\ ev.name = "probe_finished" /\ ev.kind = "list_error"
  /\ total_frames = end_frame - start_frame + 1
  /\ queue_list[ev.path] = "Failed with Error"
  /\ children = {}
  /\ \E pr \in probes :
       /\ pr.job = ev.pid + 1 /\ pr.path # ev.path
       /\ queue_list[pr.path] = "Rendering"

\* -------------------------------------------------------------------- C17
\* C17 (ProbeError on missing fields): when a probe ends without having
\* printed an integer START_FRAME and an integer END_FRAME, the same step
\* fails the job (its list item, when the path has one and is not popped
\* again, reads Failed), launches no render child and advances the queue.
C17_ProbeMissingFields ==
  [][ev'.name = "probe_incomplete" =>
       /\ (/\ queue_list[ev'.path] # "none"
           /\ (file_queue = <<>> \/ Head(file_queue) # ev'.path))
            => queue_list'[ev'.path] = "Failed with Error"
       /\ NewChildren = {}
       /\ AdvancedFrom(file_queue)]_vars

\* -------------------------------------------------------------------- C18
\* C18 (ConfigError): a drop made while the configured Blender path is unset
\* or does not exist is rejected: it changes neither the pending queue nor the
\* list, and starts no probe or render process.
C18_ConfigError ==
  [][(ev'.name = "drop" /\ (blender_path = "" \/ ~blender_exists)) =>
       UNCHANGED <<file_queue, queue_list, probes, children, process,
                   currently_rendering, njobs, naccepted>>]_vars

\* -------------------------------------------------------------------- C19
\* C19 (progress lower bound): whatever "Fra:" lines the render child prints,
\* frame numbers below start_frame included, the progress value handed to the
\* progress bar (current_frame - start_frame) is never negative.
C19_ProgressLowerBound == progress >= 0

\* -------------------------------------------------------------------- C20
\* C20 (progress monotonicity): a "Fra:" line whose frame number is within
\* [start_frame, end_frame] and not below the frame reported before it (itself
\* within the range) never lowers the progress value, and leaves it at most
\* the maximum set at launch, end_frame - start_frame + 1; "[DONE]" then
\* raises it to exactly that maximum.
C20_ProgressMonotone ==
  [][/\ (/\ ev'.name = "fra"
         /\ start_frame <= current_frame /\ current_frame <= ev'.kind
         /\ ev'.kind <= end_frame)
          => /\ progress' >= progress
             /\ progress' <= progress_maximum
             /\ progress_maximum = end_frame - start_frame + 1
     /\ (/\ ev'.name = "done"
         /\ start_frame <= current_frame /\ current_frame <= end_frame)
          => /\ progress' >= progress
             /\ progress' = end_frame - start_frame + 1]_vars

\* the child of a job that starts above frame 1 has reported the last frame of
\* its range after an earlier one: progress is one below the maximum
C20_Witness ==
  /\ ev.name = "fra"
  /\ ev.kind = end_frame
  /\ start_frame > 1 /\ start_frame < end_frame
  /\ frame_times > 0
  /\ progress = end_frame - start_frame
  /\ progress = progress_maximum - 1

\* -------------------------------------------------------------------- C21
\* C21 (frames accounting): the step in which the tracked render child prints
\* [DONE] marks the job Completed (when the path has an item and is not popped
\* again by this step), adds 1 to total_scenes_rendered and adds to
\* total_frames_rendered exactly the number of frames of the probed range that
\* had no file on disk when the job's child was launched.
C21_FramesAccounting ==
  [][(ev'.name = "done" /\ process = ev'.pid) =>
       \E c \in children :
         /\ c.pid = ev'.pid
         /\ total_scenes_rendered' = total_scenes_rendered + 1
         /\ total_frames_rendered' = total_frames_rendered + Cardinality(c.absent)
         /\ (/\ queue_list[ev'.path] # "none"
             /\ current_blend_file = ev'.path
             /\ (file_queue = <<>> \/ Head(file_queue) # ev'.path))
              => queue_list'[ev'.path] = "Completed"]_vars

\* -------------------------------------------------------------------- C22
\* C22 (session reset): a drop that is accepted while the manager is idle with
\* nothing pending, after at least one job of an earlier batch was counted,
\* leaves total_scenes_rendered, total_frames_rendered and total_render_time
\* at 0 as the first job of the new batch starts.
C22_SessionReset ==
  [][(/\ ev'.name = "drop"
      /\ ~currently_rendering /\ file_queue = <<>>
      /\ total_scenes_rendered > 0
      /\ naccepted' > naccepted)
       => /\ NewProbes # {}
          /\ Stats' = <<0, 0, 0>>]_vars

\* -------------------------------------------------------------------- C23
\* C23 (re-queue after completion): a drop of one path whose list item reads
\* Completed and which is neither pending nor the Active job is accepted as a
\* fresh queue entry: in the same step the path is pending or, when the
\* manager was idle, being probed; this holds for the most recently completed
\* job too.
C23_RequeueCompleted ==
  [][(/\ ev'.name = "drop" /\ Len(ev'.path) = 1
      /\ queue_list[ev'.path[1]] = "Completed"
      /\ ~InSeq(ev'.path[1], file_queue)
      /\ ev'.path[1] \notin ActivePaths)
       => /\ naccepted' = naccepted + 1
          /\ \/ InSeq(ev'.path[1], file_queue')
             \/ \E pr \in NewProbes : pr.path = ev'.path[1]]_vars

\* -------------------------------------------------------------------- C24
\* C24 (probe/render separation): no step starts a probe process while a
\* render child is alive (started, not killed and not yet exited).
C24_ProbeRenderSeparation ==
  [][NewProbes # {} => AliveChildren' = {}]_vars

\* -------------------------------------------------------------------- C25
\* C25 (Output Inspector idempotence): applying the Inspector to the state a
\* first application produced, with the same frames on disk, changes neither
\* start_frame, missing_frames nor total_frames.
C25_InspectorIdempotent ==
  [][ev'.name = "inspect_again" =>
       /\ disk' = disk
       /\ start_frame' = start_frame
       /\ missing_frames' = missing_frames
       /\ total_frames' = total_frames]_vars

\* the Inspector has been applied twice to rendered {1,2,4,5} in a range
\* ending at 6: start_frame = 3 and missing_frames = [3, 6] as after the first
C25_Witness ==
  /\ ev.name = "inspect_again"
  /\ disk[output_dir] = {1, 2, 4, 5}
  /\ end_frame = 6
  /\ start_frame = 3
  /\ missing_frames = <<3, 6>>

\* -------------------------------------------------------------------- C26
\* the components of a path string, in order
Comps(q) == SelectSeq(q, LAMBDA x : x # "/")

\* the absolute clean path made of the components comps
CleanAbs(comps) == <<"/">> \o SlashJoin(Collapse(comps, <<>>, 1))

\* <sceneDirectory>/<sceneBasename>_output
FallbackOutput(blend_file) ==
  CleanAbs(Comps(dirname(blend_file)) \o <<stem_output(blend_file)>>)

\* q is absolute and clean: one leading separator, no empty, "." or ".."
\* component, no trailing separator
AbsoluteClean(q) ==
  /\ isabs(q)
  /\ q = CleanAbs(Comps(q))

\* C26 (output-path resolution): for every scene file and every path string
\* the probe prints, the resolved output directory is absolute and clean; it
\* is <sceneDirectory>/<sceneBasename>_output when the probed string is empty
\* or "//"; otherwise a probed string starting with "//" (the marker taken
\* off) or not absolute is resolved under the scene file's directory, and an
\* absolute probed string is kept, normalised.  The bare word OUTPUT_DIR,
\* which is also what a line without any value parses to, is left aside.
C26_OutputPathResolution ==
  [][(ev'.name = "resolve" /\ ev'.kind # <<"OUTPUT_DIR">>) =>
       LET blend_file == ev'.path
           value == ev'.kind
       IN /\ AbsoluteClean(output_dir')
          /\ IF value = <<>> \/ value = <<"/", "/">>
             THEN output_dir' = FallbackOutput(blend_file)
             ELSE IF startswith2(value)
             THEN output_dir' = CleanAbs(Comps(dirname(blend_file))
                                           \o Comps(DropFirst(value, 2)))
             ELSE IF ~isabs(value)
             THEN output_dir' = CleanAbs(Comps(dirname(blend_file)) \o Comps(value))
             ELSE output_dir' = CleanAbs(Comps(value))]_vars

\* -------------------------------------------------------------------- C27
\* C27 (diagnostic log): after every probe continuation that ends in an
\* output-directory error or in a render launch error, the failing job's
\* scene file has a <basename>.log beside it.
C27_DiagnosticLog ==
  [][(ev'.name = "probe_finished" /\ ev'.kind \in DirErrors \cup LaunchErrors)
       => ev'.path \in logs']_vars

\* -------------------------------------------------------------------- C28
\* C28 (stale exit notifications): the exit of a render child that is no
\* longer tracked, because its job was cancelled or had finished through
\* [DONE], changes neither the tracked child, the probes, the list item of
\* the Active job nor the session statistics.
C28_StaleExitHarmless ==
  [][(/\ ev'.name = "exit"
      /\ ev'.pid # process
      /\ \E c \in children : c.pid = ev'.pid /\ (c.killed \/ c.phase = "done"))
       => /\ process' = process
          /\ probes' = probes
          /\ Stats' = Stats
          /\ \A p \in ActivePaths : queue_list'[p] = queue_list[p]]_vars

\* -------------------------------------------------------------------- C29
\* C29 (no stale missing-frame list): in every step that launches a render
\* child, the --missing_frames list passed to it, when one is passed, is the
\* ascending list of exactly the frames of the job's range that are missing
\* from the job's output directory.
C29_NoStaleMissingFrames ==
  [][\A c \in NewChildren :
       (missing_frames' # None /\ Len(missing_frames') > 1) =>
          /\ SeqSet(missing_frames') = MissingOnDisk(disk', c.path)
          /\ \A i, j \in 1..Len(missing_frames') :
               i < j => missing_frames'[i] < missing_frames'[j]]_vars

\* -------------------------------------------------------------------- C30
\* C30 (Completed means rendered): in every step that counts a job in the
\* session statistics and marks it Completed, every frame of the job's probed
\* range has its file in the job's output directory.
C30_CompletedMeansRendered ==
  [][total_scenes_rendered' = total_scenes_rendered + 1 =>
       \A f \in Frames : f \in disk'[current_blend_file]]_vars

\* -------------------------------------------------------------------- C31
\* C31 (render then inspect round trip): whenever a probe finishes for a job
\* whose output directory holds the file the render driver writes for every
\* frame of the range, whatever image format the probe reported, the Inspector
\* leaves start_frame = end_frame + 1 and no render child is launched.
C31_RenderInspectRoundTrip ==
  [][(/\ ev'.name = "probe_finished" /\ ev'.kind \notin DirErrors
      /\ \A f \in Frames : f \in disk[ev'.path])
       => /\ start_frame' = end_frame' + 1
          /\ NewChildren = {}]_vars

\* -------------------------------------------------------------------- C32
\* C32 (AlreadyComplete jobs): when the Inspector leaves start_frame >
\* end_frame for the probed job, the same step launches no render child,
\* leaves the session statistics unchanged, marks the job's list item Already
\* rendered, not Completed (when the path has an item and is not itself the
\* next job popped), and advances the queue to the next pending job, or to
\* idle.
C32_AlreadyComplete ==
  [][(ev'.name = "probe_finished" /\ ev'.kind = "already_rendered") =>
       /\ start_frame' > end_frame'
       /\ NewChildren = {}
       /\ process' = process
       /\ Stats' = Stats
       /\ (/\ queue_list[ev'.path] # "none"
           /\ (file_queue = <<>> \/ Head(file_queue) # ev'.path))
            => queue_list'[ev'.path] = "Already rendered"
       /\ AdvancedFrom(file_queue)]_vars

\* a fully rendered job was probed while another file was pending: it reads
\* Already rendered, nothing was launched or counted, and the pending file is
\* now being probed
C32_Witness ==
  /\ ev.name = "probe_finished" /\ ev.kind = "already_rendered"
  /\ queue_list[ev.path] = "Already rendered"
  /\ children = {}
  /\ total_scenes_rendered = 0
  /\ \E pr \in probes :
       /\ pr.job = ev.pid + 1 /\ pr.path # ev.path
       /\ queue_list[pr.path] = "Rendering"

\* -------------------------------------------------------------------- C33
\* C33 (frame-time history): the history of frame durations is empty after
\* every step that launches a render child, and every "Fra:" line adds
\* exactly one entry when its frame number differs from current_frame, for
\* every start_frame (0 included), and none when it is the same.
C33_FrameTimeHistory ==
  [][/\ NewChildren # {} => frame_times' = 0
     /\ ev'.name = "fra" =>
          frame_times' = frame_times + (IF ev'.kind # current_frame THEN 1 ELSE 0)]_vars


\* C34: on every progress line with a non-empty frame-time history the
\* statistics label shows the estimate (job's frame count - len(frame_times))
\* x average frame time, the job's frame count being end_frame - start_frame
\* + 1; with an empty history it shows "Calculating" and no estimate; the
\* history is never longer than the job's frame count, so the estimate is
\* never negative.
C34_RemainingEstimate ==
  [][(ev'.name = "frame" /\ process = ev'.pid) =>
       /\ frame_times' <= end_frame' - start_frame' + 1
       /\ IF frame_times' = 0
          THEN stats_label' = StatsText("Calculating render statistics...")
          ELSE /\ stats_label'.text = "Render Statistics"
               /\ stats_label'.num =
                    (end_frame' - start_frame' + 1 - frame_times') * frame_time_sum'
               /\ stats_label'.den = frame_times'
               /\ stats_label'.num >= 0]_vars

\* a progress line has left an estimate for a job with frames still to
\* render, the average frame time not being one tick
C34_Witness ==
  /\ ev.name = "frame" /\ process = ev.pid
  /\ frame_times > 0
  /\ frame_time_sum # frame_times
  /\ stats_label.text = "Render Statistics"
  /\ stats_label.num > 0

====
